---- MODULE Spec2Model ----
(***************************************************************************)
(* A model of diva (src/src/diva/__main__.py): the symlink-based           *)
(* active-version state machine and the install / uninstall / use /        *)
(* disuse workflows over the home directory tree.                          *)
(*                                                                         *)
(* Strings and paths are sequences of one-character strings, so that the   *)
(* path formatting of get_install_path and the path parsing of             *)
(* get_active_version are modelled by what they do.                        *)
(***************************************************************************)
EXTENDS Integers, Sequences, FiniteSets, TLC

VARIABLES
    home,        \* the home root, a path string (args.home / DIVA_HOME)
    system,      \* platform.system()
    is_64_bit,   \* get_platform_is_64_bit()
    is_arm,      \* platform.machine().startswith("arm")
    programs,    \* home/programs: directory name -> extracted tree, or NoDir
    bin,         \* home/bin/<app>:  absent, a regular file, or a symlink
    lib,         \* home/lib/<app>:  absent, a regular file, or a symlink
    last,        \* the command that ran last: its arguments, result and effects
    listing      \* a retrieval of a remote version list: its position and results

vars == <<home, system, is_64_bit, is_arm, programs, bin, lib, last, listing>>

----------------------------------------------------------------------------
(* Bounds *)

MaxInstalled == 2   \* installation directories that may exist at once
MaxBytes == 1       \* largest body size a download may deliver
MaxEntries == 237   \* most entries a paginated upstream list holds

----------------------------------------------------------------------------
(* String literals of the source, as character sequences *)

s_dmd == <<"d","m","d">>
s_ldc == <<"l","d","c">>
s_dub == <<"d","u","b">>
s_programs == <<"p","r","o","g","r","a","m","s">>
s_bin == <<"b","i","n">>
s_lib == <<"l","i","b">>
s_dmd_bin == <<"d","m","d","/","b","i","n">>
s_dmd_lib == <<"d","m","d","/","l","i","b">>
s_dmd2 == <<"d","m","d","2">>
s_windows == <<"w","i","n","d","o","w","s">>
s_osx == <<"o","s","x">>
s_linux == <<"l","i","n","u","x">>
s_bin64 == <<"b","i","n","6","4">>
s_bin32 == <<"b","i","n","3","2">>
s_lib64 == <<"l","i","b","6","4">>
s_lib32 == <<"l","i","b","3","2">>
s_latest == <<"l","a","t","e","s","t">>
s_zip == <<".","z","i","p">>
s_tar_xz == <<".","t","a","r",".","x","z">>
s_windows_zip == <<".","w","i","n","d","o","w","s",".","z","i","p">>
s_osx_zip == <<".","o","s","x",".","z","i","p">>
s_linux_zip == <<".","l","i","n","u","x",".","z","i","p">>
s_0x == <<"0",".","x">>
s_x == <<".","x">>
sep == "/"

DIVA_APPS == <<s_dmd, s_ldc, s_dub>>

Apps == {DIVA_APPS[i] : i \in 1..Len(DIVA_APPS)}

----------------------------------------------------------------------------
(* Python values that are not strings.  Each is a one-element sequence     *)
(* whose element is not a character, so it differs from every string.      *)

None == <<"None">>
PyTrue == <<"True">>
PyFalse == <<"False">>
PyEmptyList == <<"[]">>

\* Python truthiness, as tested by `if binary_path:` and `if version:`
Truthy(x) == x \notin {None, PyFalse, PyEmptyList, <<>>}

\* str / bytes / os.PathLike, as required by os.walk and os.symlink
IsStr(x) == x \notin {None, PyTrue, PyFalse, PyEmptyList}

\* "%s" % x
Fmt(x) ==
    IF x = PyEmptyList THEN <<"[","]">>
    ELSE IF x = None THEN <<"N","o","n","e">>
    ELSE x

----------------------------------------------------------------------------
(* Strings *)

StartsWith(s, p) == Len(p) <= Len(s) /\ SubSeq(s, 1, Len(p)) = p

EndsWith(s, p) == Len(p) <= Len(s) /\ SubSeq(s, Len(s) - Len(p) + 1, Len(s)) = p

\* `p in s`
Contains(s, p) == \E i \in 1..(Len(s) - Len(p) + 1) : SubSeq(s, i, i + Len(p) - 1) = p

\* s[n:]
From(s, n) == SubSeq(s, n + 1, Len(s))

\* s.split(sep)
RECURSIVE Split(_)
Split(s) ==
    IF \A i \in 1..Len(s) : s[i] # sep THEN <<s>>
    ELSE LET i == CHOOSE k \in 1..Len(s) : s[k] = sep /\ \A j \in 1..(k - 1) : s[j] # sep
         IN  <<SubSeq(s, 1, i - 1)>> \o Split(From(s, i))

\* sep.join(parts)
RECURSIVE JoinSep(_)
JoinSep(parts) ==
    IF Len(parts) = 0 THEN <<>>
    ELSE IF Len(parts) = 1 THEN parts[1]
    ELSE parts[1] \o <<sep>> \o JoinSep(Tail(parts))

\* os.path.join(a, b)
PathJoin(a, b) ==
    IF StartsWith(b, <<sep>>) THEN b
    ELSE IF a = <<>> \/ a[Len(a)] = sep THEN a \o b
    ELSE a \o <<sep>> \o b

PathJoin3(a, b, c) == PathJoin(PathJoin(a, b), c)

\* os.path.basename(p)
Basename(p) ==
    IF \A i \in 1..Len(p) : p[i] # sep THEN p
    ELSE LET i == CHOOSE k \in 1..Len(p) : p[k] = sep /\ \A j \in (k + 1)..Len(p) : p[j] # sep
         IN  From(p, i)

\* the components of a path that os.path.commonpath compares
Components(p) == SelectSeq(Split(p), LAMBDA c : c # <<>> /\ c # <<".">>)

RECURSIVE CommonPrefix(_, _)
CommonPrefix(a, b) ==
    IF Len(a) = 0 \/ Len(b) = 0 \/ a[1] # b[1] THEN <<>>
    ELSE <<a[1]>> \o CommonPrefix(Tail(a), Tail(b))

IsAbs(p) == StartsWith(p, <<sep>>)

\* os.path.commonpath([a, b]); raises ValueError on mixed absolute/relative
CommonPathRaises(a, b) == IsAbs(a) # IsAbs(b)

CommonPath(a, b) ==
    (IF IsAbs(a) THEN <<sep>> ELSE <<>>) \o JoinSep(CommonPrefix(Components(a), Components(b)))

----------------------------------------------------------------------------
(* The home directory tree *)

\* a directory entry of home/bin or home/lib
Absent == [kind |-> "absent", target |-> <<>>]
RegularFile == [kind |-> "file", target |-> <<>>]
Symlink(t) == [kind |-> "link", target |-> t]

\* os.path.islink
islink(entry) == entry.kind = "link"

\* os.path.lexists
lexists(entry) == entry.kind # "absent"

\* "%s-%s" % (app, version): the directory name under home/programs
install_name(app, version) == Fmt(app) \o <<"-">> \o Fmt(version)

get_install_path(h, app, version) == PathJoin3(h, s_programs, install_name(app, version))

\* os.path.exists, for paths at or below an installation directory
exists(progs, h, path) ==
    \E n \in DOMAIN progs :
        LET ip == PathJoin3(h, s_programs, n)
        IN  \/ path = ip
            \/ /\ StartsWith(path, ip \o <<sep>>)
               /\ From(path, Len(ip) + 1) \in progs[n]

get_is_installed(progs, h, app, version) == exists(progs, h, get_install_path(h, app, version))

\* os.makedirs(install_path) followed by extractall, or shutil.rmtree
WithDir(progs, n, tree) == [m \in DOMAIN progs \cup {n} |-> IF m = n THEN tree ELSE progs[m]]

\* a removal that takes every installation directory of the same version
\* number with it, whichever application it belongs to
rmtree_version(progs, n) ==
    LET number(k) == From(k, CHOOSE i \in 1..Len(k) : k[i] = "-" /\ \A j \in 1..(i - 1) : k[j] # "-")
    IN  [m \in {k \in DOMAIN progs : number(k) # number(n)} |-> progs[m]]

rmtree(progs, n) == [m \in DOMAIN progs \ {n} |-> progs[m]]

\* the immediate subdirectories of an extracted tree
TopDirs(tree) == {r \in tree : \A i \in 1..Len(r) : r[i] # sep}

\* what the first iteration of os.walk may yield as its first directory:
\* the directory order is the file system's, so any immediate subdirectory
FirstDirs(tree) == IF TopDirs(tree) = {} THEN {None} ELSE TopDirs(tree)

\* iter_installed_versions
iter_installed_versions(progs, app) ==
    {From(n, Len(app) + 1) : n \in {m \in DOMAIN progs : StartsWith(m, app \o <<"-">>)}}

----------------------------------------------------------------------------
(* Layout resolution *)

\* get_dmd_installation_paths that takes the 64-bit directories on every host
get_dmd_installation_paths_any_width(progs, h, sys, is64, install_path) ==
    IF exists(progs, h, PathJoin(install_path, s_dmd_bin))
    THEN <<PyTrue,
           IF exists(progs, h, PathJoin(install_path, s_dmd_lib)) THEN PyTrue ELSE PyFalse>>
    ELSE IF sys \notin {"Windows", "Darwin", "Linux"} THEN <<None, None>>
    ELSE
    LET root == PathJoin(IF exists(progs, h, PathJoin(install_path, s_dmd))
                         THEN PathJoin(install_path, s_dmd)
                         ELSE PathJoin(install_path, s_dmd2),
                         CASE sys = "Windows" -> s_windows
                           [] sys = "Darwin" -> s_osx
                           [] sys = "Linux" -> s_linux)
    IN  <<IF exists(progs, h, PathJoin(root, s_bin64)) THEN PathJoin(root, s_bin64)
          ELSE IF exists(progs, h, PathJoin(root, s_bin32)) THEN PathJoin(root, s_bin32)
          ELSE PathJoin(root, s_bin),
          IF exists(progs, h, PathJoin(root, s_lib64)) THEN PathJoin(root, s_lib64)
          ELSE IF exists(progs, h, PathJoin(root, s_lib32)) THEN PathJoin(root, s_lib32)
          ELSE PathJoin(root, s_lib)>>

get_dmd_installation_paths(progs, h, sys, is64, install_path) ==
    IF exists(progs, h, PathJoin(install_path, s_dmd_bin))
    THEN <<IF exists(progs, h, PathJoin(install_path, s_dmd_bin)) THEN PyTrue ELSE PyFalse,
           IF exists(progs, h, PathJoin(install_path, s_dmd_lib)) THEN PyTrue ELSE PyFalse>>
    ELSE
    LET dmd_root == PathJoin(install_path, s_dmd)
        dmd2_root == PathJoin(install_path, s_dmd2)
        root0 == IF exists(progs, h, dmd_root) THEN dmd_root ELSE dmd2_root
    IN  IF sys \notin {"Windows", "Darwin", "Linux"} THEN <<None, None>>
        ELSE
        LET root == PathJoin(root0, CASE sys = "Windows" -> s_windows
                                      [] sys = "Darwin" -> s_osx
                                      [] sys = "Linux" -> s_linux)
            binx == PathJoin(root, s_bin)
            bin64 == PathJoin(root, s_bin64)
            bin32 == PathJoin(root, s_bin32)
            libx == PathJoin(root, s_lib)
            lib64 == PathJoin(root, s_lib64)
            lib32 == PathJoin(root, s_lib32)
            binary_path == IF is64 /\ exists(progs, h, bin64) THEN bin64
                           ELSE IF exists(progs, h, bin32) THEN bin32
                           ELSE binx
            library_path == IF is64 /\ exists(progs, h, lib64) THEN lib64
                            ELSE IF exists(progs, h, lib32) THEN lib32
                            ELSE libx
        IN  <<binary_path, library_path>>

\* get_dub_installation_paths that gives a library directory too
get_dub_installation_paths_with_lib(h, app, version, first) ==
    LET install_path == get_install_path(h, app, version)
        src_dir_path == IF first = None THEN install_path ELSE PathJoin(install_path, first)
    IN  <<PathJoin(src_dir_path, s_bin), PathJoin(src_dir_path, s_lib)>>

\* first is the directory the os.walk loop stops at (None: no subdirectory)
get_dub_installation_paths(h, app, version, first) ==
    LET install_path == get_install_path(h, app, version)
        src_dir_path == IF first = None THEN install_path ELSE PathJoin(install_path, first)
    IN  <<PathJoin(src_dir_path, s_bin), None>>

get_ldc_installation_paths(h, app, version, first) ==
    LET install_path == get_install_path(h, app, version)
        src_dir_path == IF first = None THEN install_path ELSE PathJoin(install_path, first)
    IN  <<PathJoin(src_dir_path, s_bin), PathJoin(src_dir_path, s_lib)>>

get_app_installation_paths(progs, h, sys, is64, app, version, install_path, first) ==
    IF app = s_dmd THEN get_dmd_installation_paths(progs, h, sys, is64, install_path)
    ELSE IF app = s_dub THEN get_dub_installation_paths(h, app, version, first)
    ELSE IF app = s_ldc THEN get_ldc_installation_paths(h, app, version, first)
    ELSE <<None, None>>

----------------------------------------------------------------------------
(* Activation *)

\* get_active_version: [raised, value]
get_active_version(h, bins, app) ==
    LET entry == bins[app]
        target_path == entry.target
        common_path == CommonPath(h, target_path)
        parts == Split(From(target_path, 1 + Len(common_path)))
    IN  IF ~islink(entry) THEN [raised |-> FALSE, value |-> None]
        ELSE IF CommonPathRaises(h, target_path) THEN [raised |-> TRUE, value |-> None]
        ELSE IF common_path # h THEN [raised |-> FALSE, value |-> None]
        ELSE IF Len(parts) < 2 \/ parts[1] # s_programs THEN [raised |-> FALSE, value |-> None]
        ELSE IF ~StartsWith(parts[2], app \o <<"-">>) THEN [raised |-> FALSE, value |-> None]
        ELSE [raised |-> FALSE, value |-> From(parts[2], Len(app) + 1)]

\* disuse_app that forgets the library link
disuse_app_bin_only(bins, libs, app) ==
    LET bin_unlinked == islink(bins[app])
    IN  [bin |-> IF bin_unlinked THEN [bins EXCEPT ![app] = Absent] ELSE bins,
         lib |-> libs,
         bin_unlinked |-> bin_unlinked,
         lib_unlinked |-> FALSE,
         events |-> IF bin_unlinked THEN <<"unlink_bin">> ELSE <<>>]

\* disuse_app: the links afterwards, what was unlinked, and the effects in order
disuse_app(bins, libs, app) ==
    LET bin_unlinked == islink(bins[app])
        lib_unlinked == islink(libs[app])
    IN  [bin |-> IF bin_unlinked THEN [bins EXCEPT ![app] = Absent] ELSE bins,
         lib |-> IF lib_unlinked THEN [libs EXCEPT ![app] = Absent] ELSE libs,
         bin_unlinked |-> bin_unlinked,
         lib_unlinked |-> lib_unlinked,
         events |-> (IF bin_unlinked THEN <<"unlink_bin">> ELSE <<>>)
                    \o (IF lib_unlinked THEN <<"unlink_lib">> ELSE <<>>)]

\* use_app_version, lines 332-364, the installation being there: the layout,
\* the removal of the previous links and the new links
use_app_version_links(progs, bins, libs, h, sys, is64, app, version, first) ==
    LET install_path == get_install_path(h, app, version)
        paths == get_app_installation_paths(progs, h, sys, is64, app, version, install_path, first)
        binary_path == paths[1]
        library_path == paths[2]
        d == disuse_app(bins, libs, app)
        bin_raises == Truthy(binary_path) /\ (~IsStr(binary_path) \/ lexists(d.bin[app]))
        bins1 == IF Truthy(binary_path) /\ ~bin_raises
                 THEN [d.bin EXCEPT ![app] = Symlink(binary_path)] ELSE d.bin
        ev1 == IF Truthy(binary_path) /\ ~bin_raises THEN <<"symlink_bin">> ELSE <<>>
        lib_raises == Truthy(library_path) /\ (~IsStr(library_path) \/ lexists(d.lib[app]))
        libs1 == IF Truthy(library_path) /\ ~lib_raises
                 THEN [d.lib EXCEPT ![app] = Symlink(library_path)] ELSE d.lib
        ev2 == IF Truthy(library_path) /\ ~lib_raises THEN <<"symlink_lib">> ELSE <<>>
    IN  IF Truthy(binary_path) /\ ~IsStr(binary_path)
        \* os.walk(binary_path) raises TypeError before any link is touched
        THEN [ok |-> FALSE, raised |-> TRUE, bin |-> bins, lib |-> libs, events |-> <<>>]
        ELSE IF bin_raises
        \* os.symlink raises FileExistsError: the links were already removed
        THEN [ok |-> FALSE, raised |-> TRUE, bin |-> d.bin, lib |-> d.lib, events |-> d.events]
        ELSE IF lib_raises
        THEN [ok |-> FALSE, raised |-> TRUE, bin |-> bins1, lib |-> d.lib,
              events |-> d.events \o ev1]
        ELSE [ok |-> TRUE, raised |-> FALSE, bin |-> bins1, lib |-> libs1,
              events |-> d.events \o ev1 \o ev2]

\* use_app_version that does not look whether the installation is there
use_app_version_unchecked(progs, bins, libs, h, sys, is64, app, version, first) ==
    use_app_version_links(progs, bins, libs, h, sys, is64, app, version, first)

\* use_app_version: [ok, raised, bin, lib, events]
use_app_version(progs, bins, libs, h, sys, is64, app, version, first) ==
    IF ~exists(progs, h, get_install_path(h, app, version))
    THEN [ok |-> FALSE, raised |-> FALSE, bin |-> bins, lib |-> libs, events |-> <<>>]
    ELSE use_app_version_links(progs, bins, libs, h, sys, is64, app, version, first)

----------------------------------------------------------------------------
(* Download candidates *)

s_dmd_url == <<"h","t","t","p",":","/","/","d","o","w","n","l","o","a","d","s",".","d","l","a","n","g",".","o","r","g","/","r","e","l","e","a","s","e","s","/">>
s_dmd_dot == <<"/","d","m","d",".">>
s_dub_url == <<"h","t","t","p","s",":","/","/","g","i","t","h","u","b",".","c","o","m","/","d","l","a","n","g","/","d","u","b","/","a","r","c","h","i","v","e","/","r","e","f","s","/","t","a","g","s","/">>
s_downloads == <<"d","o","w","n","l","o","a","d","s">>
windows_x64 == <<"w","i","n","d","o","w","s","-","x","6","4">>
win64 == <<"w","i","n","6","4">>
windows_x86 == <<"w","i","n","d","o","w","s","-","x","8","6">>
win32 == <<"w","i","n","3","2">>
osx_arm64 == <<"o","s","x","-","a","r","m","6","4">>
osx_x86_64 == <<"o","s","x","-","x","8","6","_","6","4">>
linux_arm == <<"l","i","n","u","x","-","a","r","m">>
linux_x86_64 == <<"l","i","n","u","x","-","x","8","6","_","6","4">>

\* 200 <= response.status_code < 300
HttpOk(status_code) == 200 <= status_code /\ status_code < 300

\* get_dmd_url_suffixes: the list, or None where the source raises
get_dmd_url_suffixes(sys) ==
    IF sys = "Windows" THEN <<s_windows_zip, s_zip>>
    ELSE IF sys = "Darwin" THEN <<s_osx_zip, s_zip>>
    ELSE IF sys = "Linux" THEN <<s_linux_zip, s_zip>>
    ELSE None

get_dmd_url_suffixes_raises(sys) == sys \notin {"Windows", "Darwin", "Linux"}

get_dmd_download_urls(version, sys) ==
    LET suffixes == get_dmd_url_suffixes(sys)
        download_url_x ==
            IF version # PyEmptyList /\ Len(version) > 1 /\ version[2] = "."
            THEN <<version[1]>> \o s_x
            ELSE s_0x
        download_url_base ==
            s_dmd_url \o download_url_x \o <<sep>> \o Fmt(version) \o s_dmd_dot \o Fmt(version)
    IN  [i \in 1..Len(suffixes) |-> download_url_base \o suffixes[i]]

get_dub_download_urls(version) == <<s_dub_url \o Fmt(version) \o s_zip>>

\* the asset loop of get_ldc_download_urls: download_asset after the assets
\* download_asset = None
NoAsset == [name |-> None, browser_download_url |-> None]

RECURSIVE ldc_select(_, _, _, _, _)
ldc_select(assets, download_asset, sys, is64, arm) ==
    IF Len(assets) = 0 THEN download_asset
    ELSE
    LET asset == assets[1]
        name == asset.name
        d1 == IF sys = "Windows"
              THEN LET w1 == IF Contains(name, windows_x64) \/ (Contains(name, win64) /\ is64)
                             THEN asset ELSE download_asset
                   IN  IF Contains(name, windows_x86) \/ Contains(name, win32)
                       THEN (IF w1 # NoAsset THEN w1 ELSE asset)
                       ELSE w1
              ELSE IF sys = "Darwin"
              THEN LET m1 == IF Contains(name, osx_arm64) /\ arm THEN asset ELSE download_asset
                   IN  IF Contains(name, osx_x86_64) /\ ~arm THEN asset ELSE m1
              ELSE IF sys = "Linux"
              THEN LET l1 == IF Contains(name, linux_arm) /\ arm THEN asset ELSE download_asset
                   IN  IF Contains(name, linux_x86_64) /\ ~arm THEN asset ELSE l1
              ELSE download_asset
    IN  ldc_select(Tail(assets), d1, sys, is64, arm)

\* release: the answer of the release-by-tag endpoint, [status_code, assets]
get_ldc_download_urls(release, sys, is64, arm) ==
    IF ~HttpOk(release.status_code) THEN <<>>
    ELSE LET download_asset == ldc_select(release.assets, NoAsset, sys, is64, arm)
         IN  IF download_asset # NoAsset THEN <<download_asset.browser_download_url>> ELSE <<>>

\* get_app_download_urls, for a version that diva_install has resolved
get_app_download_urls(app, version, sys, is64, arm, release) ==
    IF app = s_dmd THEN get_dmd_download_urls(version, sys)
    ELSE IF app = s_dub THEN get_dub_download_urls(version)
    ELSE IF app = s_ldc THEN get_ldc_download_urls(release, sys, is64, arm)
    ELSE <<>>

\* get_app_version_latest that takes the last entry of the list
get_app_version_latest_last(versions) ==
    IF Len(versions) # 0 THEN versions[Len(versions)] ELSE PyEmptyList

\* get_app_version_latest, given what get_app_version_list returned
get_app_version_latest(versions) ==
    IF Len(versions) # 0 THEN versions[1] ELSE PyEmptyList

----------------------------------------------------------------------------
(* Download *)

\* download_file that takes any 2xx response for a download
download_file_any_body(response) ==
    IF 200 <= response.status_code /\ response.status_code < 300 THEN 1 ELSE 0

\* download_file: the bytes written, for a response [status_code, body]
download_file(response) ==
    IF ~HttpOk(response.status_code) THEN 0 ELSE response.body

\* the candidate loop of diva_install, from candidate i on:
\* requested lists the candidates requested, in order; source is the
\* candidate whose download succeeded, 0 when none did
RECURSIVE download_loop(_, _, _)
download_loop(responses, i, requested) ==
    IF i > Len(responses) THEN [requested |-> requested, source |-> 0]
    ELSE IF download_file(responses[i]) # 0
         THEN [requested |-> Append(requested, i), source |-> i]
         ELSE download_loop(responses, i + 1, Append(requested, i))

\* the archive file name of candidate download_url under home/downloads
download_path(h, app, timestamp, download_url) ==
    PathJoin(PathJoin(h, s_downloads), app \o <<".">> \o timestamp \o <<".">> \o Basename(download_url))

----------------------------------------------------------------------------
(* The inputs of the commands *)

V1 == <<"1">>
V2 == <<"2",".","0">>
Versions == {V1, V2}

\* what a user types as the version of a command
VersionArgs == Versions

\* the machines: the home root, platform.system(), 64-bit, ARM
Machines ==
    {<<<<"/","h">>, "Linux", TRUE, FALSE>>,
     <<<<"/","h","/">>, "Linux", TRUE, FALSE>>,
     <<<<"/","h">>, "Windows", FALSE, FALSE>>,
     <<<<"/","h">>, "FreeBSD", TRUE, FALSE>>}

\* what get_app_version_list may return
RemoteLists == {<<>>, <<V1, V2>>}

\* extracted trees: the directories an archive holds
T_dmd2 ==
    LET l == PathJoin(s_dmd2, s_linux)
        w == PathJoin(s_dmd2, s_windows)
        o == PathJoin(s_dmd2, s_osx)
    IN  {s_dmd2, l, w, o,
         PathJoin(l, s_bin32), PathJoin(l, s_bin64), PathJoin(l, s_lib32), PathJoin(l, s_lib64),
         PathJoin(w, s_bin), PathJoin(w, s_bin64), PathJoin(w, s_lib), PathJoin(w, s_lib64),
         PathJoin(o, s_bin), PathJoin(o, s_lib)}
T_dmd0 == {s_dmd, s_dmd_bin, s_dmd_lib}
T_dub == LET r == <<"d","u","b","-","x">> IN {r, PathJoin(r, s_bin)}
T_ldc == LET r == <<"l","d","c","2","-","x">> IN {r, PathJoin(r, s_bin), PathJoin(r, s_lib)}
T_flat == {}

\* what the archive behind a candidate may turn out to be
Archives(app) ==
    IF app = s_dmd THEN {T_dmd2, T_dmd0}
    ELSE IF app = s_dub THEN {T_dub}
    ELSE {T_ldc}

Asset(name) == [name |-> name, browser_download_url |-> <<"g",":","/">> \o name]
A_linux == Asset(<<"l","d","c","2","-">> \o linux_x86_64 \o s_tar_xz)
A_win64 == Asset(<<"l","d","c","2","-">> \o windows_x64 \o <<".","7","z">>)
A_win32 == Asset(<<"l","d","c","2","-">> \o windows_x86 \o s_zip)
A_osx == Asset(<<"l","d","c","2","-">> \o osx_arm64 \o s_tar_xz)

\* what the release-by-tag endpoint may answer
Releases ==
    {[status_code |-> 404, assets |-> <<>>],
     [status_code |-> 200, assets |-> <<A_linux, A_win32, A_win64, A_osx>>]}
NoRelease == [status_code |-> 0, assets |-> <<>>]

\* what a download candidate may answer
Responses ==
    {[status_code |-> 200, body |-> b] : b \in {0, MaxBytes}}
    \cup {[status_code |-> 300, body |-> MaxBytes]}

\* what the two subprocesses of the build may return: the second one runs
\* only when the first returned 0
BuildRuns == {<<0, 0>>, <<2, 0>>, <<0, 1>>}

timestamp == <<"T">>

----------------------------------------------------------------------------
(* Commands *)

\* the home tree
Tree(progs, bins, libs) == [programs |-> progs, bin |-> bins, lib |-> libs]

\* the record of a command: its arguments, then its result and effects
Cmd(op, app, version, confirm) ==
    [op |-> op, app |-> app, version |-> version,
     confirm |-> confirm,         \* the answer to the question of the command
     inactive |-> FALSE,
     again |-> FALSE,             \* the same command ran right before
     asked |-> FALSE,             \* diva_install asked whether to reinstall
     confirm_reinstall |-> FALSE, \* and this was the answer
     versions |-> <<>>,           \* what get_app_version_list returned
     resolved |-> version,        \* the version after "latest" is resolved
     release |-> NoRelease,       \* what the release-by-tag endpoint answered
     returned |-> "int",          \* "int", "None" or "raise"
     status |-> 0,                \* the returned status, when returned = "int"
     not_installed |-> FALSE,     \* diva_use: use_app_version returned False
     use_ok |-> FALSE,            \* an activation was made and returned True
     download_urls |-> <<>>,      \* the download candidates
     responses |-> <<>>,          \* what each candidate would answer
     requested |-> <<>>,          \* the candidates requested, in order
     source |-> 0,                \* the candidate whose download succeeded
     archive |-> <<>>,            \* the path of the archive that was extracted
     build_status |-> 0,
     unlinked |-> <<FALSE, FALSE>>,
     events |-> <<>>,             \* the effects on the home tree, in order
     pre |-> Tree(programs, bin, lib)]
                                  \* the home tree when the command started

\* the outcome of a command: the home tree it leaves and its record
Outcome(progs, bins, libs, c) == [programs |-> progs, bin |-> bins, lib |-> libs, c |-> c]

Effect(o) ==
    /\ programs' = o.programs
    /\ bin' = o.bin
    /\ lib' = o.lib
    /\ last' = o.c
    /\ UNCHANGED <<home, system, is_64_bit, is_arm, listing>>

\* build_app, for the return codes of the two subprocesses of build_dub
build_app(app, rc1, rc2) ==
    IF app = s_dub
    THEN (IF rc1 # 0 THEN rc1 ELSE IF rc2 # 0 THEN rc2 ELSE 0)
    ELSE 0

\* diva_install, lines 748-750: no download candidates
install_no_urls(c, progs, bins, libs) ==
    Outcome(progs, bins, libs, [c EXCEPT !.status = 1])

\* the same with the directory removed before the answer is looked at
install_declined_removes(c, progs, bins, libs) ==
    [programs |-> rmtree(progs, install_name(c.app, c.resolved)), bin |-> bins, lib |-> libs,
     c |-> [c EXCEPT !.status = 0]]

\* diva_install, lines 761-763: the reinstallation was declined
install_declined(c, progs, bins, libs) ==
    Outcome(progs, bins, libs, [c EXCEPT !.status = 0])

\* the same with the installation directory made before the download
install_download_failed_makedirs(c, progs1, bins, libs, n) ==
    [programs |-> [m \in DOMAIN progs1 \cup {n} |-> IF m = n THEN {} ELSE progs1[m]],
     bin |-> bins, lib |-> libs,
     c |-> [c EXCEPT !.status = 1, !.events = @ \o <<"makedirs">>]]

\* diva_install, lines 786-788: no candidate could be downloaded
install_download_failed(c, progs1, bins, libs, n) ==
    Outcome(progs1, bins, libs, [c EXCEPT !.status = 1])

\* diva_install, lines 790-792 and 802-804: the archive type is not supported
install_unsupported(c, progs1, bins, libs, n) ==
    Outcome(WithDir(progs1, n, T_flat), bins, libs,
            [c EXCEPT !.status = 1,
                      !.events = @ \o (IF n \in DOMAIN progs1 THEN <<>> ELSE <<"makedirs">>)])

\* the same with the activation made before the build status is looked at
install_finish_activates_first(c, progs2, bins, libs, app, build_status, activate, u) ==
    [programs |-> progs2,
     bin |-> IF activate THEN u.bin ELSE bins,
     lib |-> IF activate THEN u.lib ELSE libs,
     c |-> [c EXCEPT !.build_status = build_status,
                     !.status = build_status,
                     !.events = @ \o (IF activate THEN u.events ELSE <<>>)]]

\* diva_install, lines 805-814: the build and the activation;
\* progs2 is home/programs after the extraction, u what use_app_version does
install_finish(c, progs2, bins, libs, app, build_status, activate, u) ==
    LET c1 == [c EXCEPT !.build_status = build_status,
                        !.events = @ \o (IF app = s_dub THEN <<"build">> ELSE <<>>)]
    IN  IF build_status # 0
        THEN Outcome(progs2, bins, libs, [c1 EXCEPT !.status = build_status])
        ELSE IF ~activate
        THEN Outcome(progs2, bins, libs, [c1 EXCEPT !.status = 0])
        ELSE Outcome(progs2, u.bin, u.lib,
                     [c1 EXCEPT !.use_ok = u.ok,
                                !.returned = IF u.raised THEN "raise" ELSE "int",
                                !.status = IF u.ok THEN 0 ELSE 1,
                                !.events = @ \o u.events])

\* diva_install from the extraction on (lines 789-814): progs1 is
\* home/programs after the download, dpath the path of the downloaded archive
install_extract(c, app, resolved, activate, progs1, bins, libs, dpath) ==
    LET n == install_name(app, resolved)
    IN  /\ n \in DOMAIN progs1 \/ Cardinality(DOMAIN progs1) < MaxInstalled
        /\ IF ~EndsWith(dpath, s_zip) /\ ~EndsWith(dpath, s_tar_xz)
           THEN Effect(install_unsupported(c, progs1, bins, libs, n))
           ELSE \E archive \in Archives(app) :
                \E progs2 \in {WithDir(progs1, n, archive)},
                   first \in FirstDirs(archive) :
                \E u \in {use_app_version(progs2, bins, libs, home, system, is_64_bit,
                                          app, resolved, first)},
                   run \in (IF app = s_dub THEN BuildRuns ELSE {<<0, 0>>}) :
                    Effect(install_finish(
                        [c EXCEPT !.archive = dpath,
                                  !.events = @ \o (IF n \in DOMAIN progs1 THEN <<>>
                                                   ELSE <<"makedirs">>) \o <<"extract">>],
                        progs2, bins, libs, app, build_app(app, run[1], run[2]), activate, u))

\* diva_install (lines 737-788), in the home tree <<programs, bins, libs>>;
\* activate is `not hasattr(args, "inactive") or not args.inactive`
diva_install(c0, app, version, activate, bins, libs) ==
    \E versions \in (IF version = s_latest THEN RemoteLists ELSE {<<>>}) :
    LET resolved == IF version = s_latest THEN get_app_version_latest(versions) ELSE version
        n == install_name(app, resolved)
    IN  IF app = s_dmd /\ get_dmd_url_suffixes_raises(system)
        THEN Effect(Outcome(programs, bins, libs,
                            [c0 EXCEPT !.resolved = resolved, !.versions = versions,
                                       !.returned = "raise"]))
        ELSE
        \E release \in (IF app = s_ldc THEN Releases ELSE {NoRelease}) :
        \E download_urls \in {get_app_download_urls(app, resolved, system, is_64_bit, is_arm, release)},
           found \in {exists(programs, home, get_install_path(home, app, resolved))} :
            IF Len(download_urls) = 0
            THEN Effect(install_no_urls([c0 EXCEPT !.resolved = resolved,
                                                   !.versions = versions,
                                                   !.release = release],
                                        programs, bins, libs))
            ELSE
            \* confirm_reinstall: the answer, where the question is asked
            \E confirm \in (IF found THEN BOOLEAN ELSE {FALSE}) :
            LET c == [c0 EXCEPT !.resolved = resolved, !.versions = versions,
                                !.release = release, !.asked = found,
                                !.confirm_reinstall = confirm]
            IN
            IF found /\ ~confirm
            THEN Effect(install_declined([c EXCEPT !.download_urls = download_urls],
                                         programs, bins, libs))
            ELSE
            \E progs1 \in {IF found THEN rmtree(programs, n) ELSE programs},
               responses \in [1..Len(download_urls) -> Responses] :
            \E dl \in {download_loop(responses, 1, <<>>)} :
                LET c3 == [c EXCEPT !.download_urls = download_urls,
                                    !.responses = responses,
                                    !.requested = dl.requested, !.source = dl.source,
                                    !.events = @ \o (IF found THEN <<"rmtree">> ELSE <<>>)
                                        \o [i \in 1..Len(dl.requested) |-> "request"]]
                IN  IF dl.source = 0
                    THEN Effect(install_download_failed(c3, progs1, bins, libs, n))
                    ELSE install_extract(c3, app, resolved, activate, progs1, bins, libs,
                             download_path(home, app, timestamp, download_urls[dl.source]))

\* a command starts in a new process
Start == last.op = "none"

\* diva install that does not look at the inactive flag
Install_activates(app, version, inactive) ==
    Start /\
    diva_install([Cmd("install", app, version, FALSE) EXCEPT !.inactive = inactive],
                 app, version, TRUE, bin, lib)

\* diva install
Install(app, version, inactive) ==
    Start /\
    diva_install([Cmd("install", app, version, FALSE) EXCEPT !.inactive = inactive],
                 app, version, ~inactive, bin, lib)

\* diva_uninstall that does not wait for the confirmation
uninstall_unconfirmed(c, progs, bins, libs, h, app, version, confirm, active_version, d) ==
    IF ~exists(progs, h, get_install_path(h, app, version))
    THEN [programs |-> progs, bin |-> bins, lib |-> libs, c |-> [c EXCEPT !.status = 1]]
    ELSE [programs |-> rmtree(progs, install_name(app, version)), bin |-> bins, lib |-> libs,
          c |-> [c EXCEPT !.returned = "None", !.events = <<"rmtree">>]]

\* diva_uninstall, for what get_active_version returned and disuse_app does
uninstall(c, progs, bins, libs, h, app, version, confirm, active_version, d) ==
    LET n == install_name(app, version)
    IN  IF ~exists(progs, h, get_install_path(h, app, version))
        THEN Outcome(progs, bins, libs, [c EXCEPT !.status = 1])
        ELSE IF ~confirm
        THEN Outcome(progs, bins, libs, [c EXCEPT !.status = 0])
        ELSE IF active_version.raised
        THEN Outcome(progs, bins, libs, [c EXCEPT !.returned = "raise"])
        ELSE IF version = active_version.value
        THEN Outcome(rmtree(progs, n), d.bin, d.lib,
                     [c EXCEPT !.returned = "None",
                               !.unlinked = <<d.bin_unlinked, d.lib_unlinked>>,
                               !.events = d.events \o <<"rmtree">>])
        ELSE Outcome(rmtree(progs, n), bins, libs,
                     [c EXCEPT !.returned = "None", !.events = <<"rmtree">>])

\* diva uninstall that unlinks the application whatever its active version is
Uninstall_unlinks(app, version, confirm) ==
    Start /\
    Effect(uninstall(Cmd("uninstall", app, version, confirm), programs, bin, lib, home,
                     app, version, confirm,
                     [raised |-> FALSE, value |-> version], disuse_app(bin, lib, app)))

\* diva uninstall
Uninstall(app, version, confirm) ==
    Start /\
    Effect(uninstall(Cmd("uninstall", app, version, confirm), programs, bin, lib, home,
                     app, version, confirm,
                     get_active_version(home, bin, app), disuse_app(bin, lib, app)))

\* diva_use, lines 850-853 and 860-862: u is what use_app_version did
use_result(c, progs, u) ==
    IF u.raised
    THEN Outcome(progs, u.bin, u.lib, [c EXCEPT !.returned = "raise", !.events = u.events])
    ELSE IF u.ok
    THEN Outcome(progs, u.bin, u.lib,
                 [c EXCEPT !.use_ok = TRUE, !.status = 0, !.events = u.events])
    ELSE Outcome(progs, u.bin, u.lib, [c EXCEPT !.not_installed = TRUE, !.status = 0])

\* diva use; confirm answers the offer to install
Use(app, version, confirm) ==
    Start /\
    LET c == Cmd("use", app, version, confirm)
        n == install_name(app, version)
    IN  \E first \in (IF n \in DOMAIN programs THEN FirstDirs(programs[n]) ELSE {None}) :
        \E u \in {use_app_version(programs, bin, lib, home, system, is_64_bit,
                                  app, version, first)} :
            IF ~u.raised /\ ~u.ok /\ confirm
            THEN diva_install([c EXCEPT !.not_installed = TRUE], app, version,
                              TRUE, u.bin, u.lib)
            ELSE Effect(use_result(c, programs, u))

\* diva_disuse that fails when no version is in use
diva_disuse_raises(c, progs, d) ==
    [programs |-> progs, bin |-> d.bin, lib |-> d.lib,
     c |-> [c EXCEPT !.returned = IF d.bin_unlinked \/ d.lib_unlinked THEN "None" ELSE "raise",
                     !.unlinked = <<d.bin_unlinked, d.lib_unlinked>>,
                     !.events = d.events]]

\* diva_disuse
diva_disuse(c, progs, d) ==
    Outcome(progs, d.bin, d.lib,
            [c EXCEPT !.returned = "None",
                      !.unlinked = <<d.bin_unlinked, d.lib_unlinked>>,
                      !.events = d.events])

\* diva disuse, also a second time in a row
Disuse(app) ==
    /\ Start \/ (last.op = "disuse" /\ last.app = app /\ ~last.again)
    /\ Effect(diva_disuse([Cmd("disuse", app, <<>>, FALSE) EXCEPT !.again = ~Start],
                          programs, disuse_app(bin, lib, app)))

----------------------------------------------------------------------------
(* The retrieval of the remote version lists *)

\* no list is being retrieved
NoListing == [kind |-> "none"]

per_page == 100

\* page page_number of an upstream list of the entries 1..n
github_page(n, page_number) ==
    LET from == (page_number - 1) * per_page
        len == IF n - from >= per_page THEN per_page
               ELSE IF n - from > 0 THEN n - from ELSE 0
    IN  [i \in 1..len |-> from + i]

\* get_github_list that goes on until a page is empty
page_is_last_when_empty(response_results) == Len(response_results) = 0

\* get_github_list, lines 256-257: the page ends the loop
page_is_last(response_results) == Len(response_results) < per_page

\* get_github_list starts
GithubListing(n) ==
    [kind |-> "github", upstream |-> n, page_number |-> 1, results |-> <<>>,
     requested |-> <<>>, done |-> FALSE]

\* get_github_list: one turn of the loop
get_github_list ==
    /\ listing.kind = "github" /\ ~listing.done
    /\ \E response_results \in {github_page(listing.upstream, listing.page_number)} :
           listing' = [listing EXCEPT !.requested = Append(@, listing.page_number),
                                      !.results = @ \o response_results,
                                      !.page_number = @ + 1,
                                      !.done = page_is_last(response_results)]
    /\ UNCHANGED <<home, system, is_64_bit, is_arm, programs, bin, lib, last>>

\* list_urls of get_dmd_version_list
list_urls ==
    <<s_dmd_url \o <<"2", ".", "x", sep>>,
      s_dmd_url \o <<"1", ".", "x", sep>>,
      s_dmd_url \o <<"0", ".", "x", sep>>>>

\* the versions VERSION_PATTERN finds in the page of each release branch
BranchVersions ==
    <<<<<<"2", ".", "1">>, V2>>, <<<<"1", ".", "0">>>>, <<<<"0", ".", "9">>>>>>

\* what the page of release branch i may answer
ListResponses(i) ==
    {[status_code |-> 200, versions |-> BranchVersions[i]],
     [status_code |-> 200, versions |-> <<>>],
     [status_code |-> 404, versions |-> BranchVersions[i]],
     [status_code |-> 300, versions |-> <<>>]}

\* get_dmd_version_list that gives up the list at a failing source
dmd_versions_reset(versions, response) ==
    IF ~HttpOk(response.status_code) THEN <<>> ELSE versions \o response.versions

\* get_dmd_version_list, lines 420-428: versions after one source
dmd_versions(versions, response) ==
    IF ~HttpOk(response.status_code) THEN versions ELSE versions \o response.versions

\* get_dmd_version_list starts
DmdListing ==
    [kind |-> "dmd", url_index |-> 1, versions |-> <<>>, requested |-> <<>>,
     responses |-> <<>>, done |-> FALSE]

\* get_dmd_version_list: one turn of the loop
get_dmd_version_list ==
    /\ listing.kind = "dmd" /\ ~listing.done
    /\ \E response \in ListResponses(listing.url_index) :
           listing' = [listing EXCEPT !.requested = Append(@, list_urls[listing.url_index]),
                                      !.responses = Append(@, response),
                                      !.versions = dmd_versions(@, response),
                                      !.url_index = @ + 1,
                                      !.done = listing.url_index = Len(list_urls)]
    /\ UNCHANGED <<home, system, is_64_bit, is_arm, programs, bin, lib, last>>

----------------------------------------------------------------------------
(* The specification of the commands over one home directory *)

NoCmd == [Cmd("none", <<>>, <<>>, FALSE) EXCEPT !.pre = Tree(<<>>, <<>>, <<>>)]

\* the process of the command ends: the next command is a new process,
\* which finds the home tree and nothing else
Exit ==
    /\ last.op # "none"
    /\ last' = NoCmd
    /\ UNCHANGED <<home, system, is_64_bit, is_arm, programs, bin, lib, listing>>

Init ==
    /\ \E m \in Machines :
           home = m[1] /\ system = m[2] /\ is_64_bit = m[3] /\ is_arm = m[4]
    /\ programs = [m \in {} |-> T_flat]
    /\ bin = [a \in Apps |-> Absent]
    /\ lib = [a \in Apps |-> Absent]
    /\ last = NoCmd
    /\ listing = NoListing

Next ==
    \/ \E app \in Apps, version \in VersionArgs, inactive \in BOOLEAN :
           Install(app, version, inactive)
    \/ \E app \in Apps, version \in VersionArgs, confirm \in BOOLEAN :
           Uninstall(app, version, confirm)
    \/ \E app \in Apps, version \in VersionArgs, confirm \in BOOLEAN :
           Use(app, version, confirm)
    \/ \E app \in Apps : Disuse(app)
    \/ Exit

Spec == Init /\ [][Next]_vars

----------------------------------------------------------------------------
(* The retrieval of a remote version list, by itself *)

InitList ==
    /\ home = <<sep, "h">>
    /\ system = "Linux" /\ is_64_bit = TRUE /\ is_arm = FALSE
    /\ programs = [m \in {} |-> T_flat]
    /\ bin = [a \in Apps |-> Absent]
    /\ lib = [a \in Apps |-> Absent]
    /\ last = NoCmd
    /\ \/ \E n \in 0..MaxEntries : listing = GithubListing(n)
       \/ listing = DmdListing

NextList ==
    \/ get_github_list
    \/ get_dmd_version_list

SpecList == InitList /\ [][NextList]_vars

----------------------------------------------------------------------------
(* The commands with installations of the latest version, on one host *)

InitLatest ==
    /\ home = <<sep, "h">>
    /\ system = "Linux" /\ is_64_bit = TRUE /\ is_arm = FALSE
    /\ programs = [m \in {} |-> T_flat]
    /\ bin = [a \in Apps |-> Absent]
    /\ lib = [a \in Apps |-> Absent]
    /\ last = NoCmd
    /\ listing = NoListing

NextLatest ==
    \/ \E app \in Apps, inactive \in BOOLEAN : Install(app, s_latest, inactive)
    \/ \E app \in Apps, confirm \in BOOLEAN : Uninstall(app, V1, confirm)
    \/ \E app \in Apps, confirm \in BOOLEAN : Use(app, V1, confirm)
    \/ \E app \in Apps : Disuse(app)
    \/ Exit

SpecLatest == InitLatest /\ [][NextLatest]_vars

----------------------------------------------------------------------------
(* The commands over a home directory found with a dmd installation in it:
   one unpacked by an earlier run, on this host or on another host that
   shares the home directory *)

SupportedSystems == {"Windows", "Darwin", "Linux"}

\* the hosts: platform.system() and get_platform_is_64_bit()
HomeMachines == (SupportedSystems \cup {"FreeBSD"}) \X BOOLEAN

\* the directories get_dmd_installation_paths looks for below dmd2/<os>
SuffixDirs == {s_bin, s_bin64, s_bin32, s_lib, s_lib64, s_lib32}

\* a dmd release tree holding the directories dirs for each operating system
DmdTree(dirs) ==
    {s_dmd2}
    \cup {PathJoin(s_dmd2, o) : o \in {s_windows, s_osx, s_linux}}
    \cup {PathJoin3(s_dmd2, o, d) : o \in {s_windows, s_osx, s_linux}, d \in dirs}

HomeTrees == {DmdTree(dirs) : dirs \in SUBSET SuffixDirs} \cup {T_dmd0}

InitHome ==
    /\ home = <<sep, "h">>
    /\ \E m \in HomeMachines : system = m[1] /\ is_64_bit = m[2]
    /\ is_arm = FALSE
    /\ \E tree \in HomeTrees : programs = [n \in {install_name(s_dmd, V1)} |-> tree]
    /\ bin = [a \in Apps |-> Absent]
    /\ lib = [a \in Apps |-> Absent]
    /\ last = NoCmd
    /\ listing = NoListing

NextHome ==
    \/ \E version \in Versions : Use(s_dmd, version, FALSE)
    \/ Disuse(s_dmd)
    \/ Exit

SpecHome == InitHome /\ [][NextHome]_vars

----------------------------------------------------------------------------
(* What the properties speak of *)

NoVersion == [raised |-> FALSE, value |-> None]
ActiveAt(version) == [raised |-> FALSE, value |-> version]

\* GetActive(app), now and when the last command started
GetActive(app) == get_active_version(home, bin, app)
PreActive(app) == get_active_version(home, last.pre.bin, app)

\* the last command ran diva_install
InstallRan == last.op = "install" \/ (last.op = "use" /\ last.not_installed /\ last.confirm)

Returned(status) == last.returned = "int" /\ last.status = status

Has(e) == \E i \in DOMAIN last.events : last.events[i] = e

\* the installation directory of (app, version) exists in home/programs
Installed(progs, app, version) == install_name(app, version) \in DOMAIN progs

\* the entry is a symlink into the installation directory of (app, version)
LinkInto(entry, app, version) ==
    /\ islink(entry)
    /\ \/ entry.target = get_install_path(home, app, version)
       \/ StartsWith(entry.target, get_install_path(home, app, version) \o <<sep>>)

\* the target of the symlink lies outside the home root
Outside(entry) ==
    /\ islink(entry)
    /\ \/ IsAbs(entry.target) # IsAbs(home)
       \/ ~StartsWith(Components(entry.target), Components(home))

\* the target of the symlink does not exist
Broken(entry) == islink(entry) /\ ~exists(programs, home, entry.target)

LinksUnchanged == bin = last.pre.bin /\ lib = last.pre.lib

\* the answer counts as a download: 2xx and at least one byte
Downloaded(response) ==
    response.status_code \in 200..299 /\ response.body >= 1

\* the first candidate whose answer counts as a download, 0 when none does
FirstDownloaded(responses) ==
    IF \E i \in DOMAIN responses : Downloaded(responses[i])
    THEN CHOOSE i \in DOMAIN responses :
             Downloaded(responses[i]) /\ \A j \in 1..(i - 1) : ~Downloaded(responses[j])
    ELSE 0

----------------------------------------------------------------------------
(* Properties *)

\* C1: an Install without the inactive flag that goes through download,
\* extraction, build and activation and returns 0 leaves GetActive(A) = V.
C1_claim ==
    (InstallRan /\ ~last.inactive /\ Has("extract") /\ Returned(0))
        => GetActive(last.app) = ActiveAt(last.resolved)

\* C2: after a successful activating Install of V1 and then of V2,
\* GetActive(A) = V2 and no link of A points into the directory of V1.
C2_claim ==
    \A v1 \in Versions :
        (/\ InstallRan /\ ~last.inactive /\ Has("extract") /\ Returned(0)
         /\ v1 # last.resolved
         /\ Installed(last.pre.programs, last.app, v1)
         /\ LinkInto(last.pre.bin[last.app], last.app, v1))
        => /\ GetActive(last.app) = ActiveAt(last.resolved)
           /\ ~LinkInto(bin[last.app], last.app, v1)
           /\ ~LinkInto(lib[last.app], last.app, v1)

\* C3: a confirmed Uninstall of the active version leaves GetActive(A) none
\* and no installation directory, the links being removed before it.
C3_claim ==
    (/\ last.op = "uninstall" /\ last.confirm
     /\ PreActive(last.app) = ActiveAt(last.version))
        => /\ GetActive(last.app) = NoVersion
           /\ ~Installed(programs, last.app, last.version)
           /\ \A i, j \in DOMAIN last.events :
                  (last.events[i] \in {"unlink_bin", "unlink_lib"}
                   /\ last.events[j] = "rmtree") => i < j

\* C4: GetActive reports no active version, and raises no error, when
\* bin/A is a broken symlink, a regular file, absent, or a symlink to
\* outside the home root.
C4_claim ==
    \A app \in Apps :
        (\/ Broken(bin[app])
         \/ bin[app].kind = "file"
         \/ bin[app].kind = "absent"
         \/ Outside(bin[app]))
        => GetActive(app) = NoVersion

\* C5: the links of an application that exist point into one installation
\* directory of it, and an activation removes every previous link of the
\* application before it creates a link.
C5_links ==
    /\ \A app \in Apps :
           (islink(bin[app]) \/ islink(lib[app])) =>
               \E v \in Versions :
                   /\ islink(bin[app]) => LinkInto(bin[app], app, v)
                   /\ islink(lib[app]) => LinkInto(lib[app], app, v)
    /\ last.use_ok =>
           /\ islink(last.pre.bin[last.app]) => Has("unlink_bin")
           /\ islink(last.pre.lib[last.app]) => Has("unlink_lib")
           /\ \A i, j \in DOMAIN last.events :
                  (last.events[i] \in {"unlink_bin", "unlink_lib"}
                   /\ last.events[j] \in {"symlink_bin", "symlink_lib"}) => i < j

\* an activation replaced both links of another version
C5_witness ==
    /\ last.use_ok
    /\ Has("unlink_bin") /\ Has("unlink_lib") /\ Has("symlink_bin") /\ Has("symlink_lib")
    /\ \E v \in Versions :
           /\ v # last.resolved
           /\ LinkInto(last.pre.bin[last.app], last.app, v)
           /\ LinkInto(lib[last.app], last.app, last.resolved)

\* C6: Disuse raises no error, leaves no bin or lib symlink of the
\* application, so that GetActive is none, and leaves home/programs as it
\* was; run a second time in a row it changes nothing and reports that
\* nothing was unlinked.
C6_disuse ==
    last.op = "disuse" =>
        /\ last.returned = "None"
        /\ ~islink(bin[last.app]) /\ ~islink(lib[last.app])
        /\ GetActive(last.app) = NoVersion
        /\ programs = last.pre.programs
        /\ last.again => /\ LinksUnchanged
                         /\ last.unlinked = <<FALSE, FALSE>>

\* Disuse ran a second time in a row on an installed application
C6_witness ==
    /\ last.op = "disuse" /\ last.again
    /\ last.returned = "None"
    /\ \E v \in Versions : Installed(programs, last.app, v)

\* C7: Use of a version that is not installed reports it, and changes no
\* link and installs nothing by itself; when the offer to install is
\* declined, the home tree is as before and 0 is returned.
C7_use_not_installed ==
    (last.op = "use" /\ ~Installed(last.pre.programs, last.app, last.version)) =>
        /\ last.not_installed
        /\ ~last.confirm =>
               /\ Returned(0)
               /\ programs = last.pre.programs
               /\ LinksUnchanged
               /\ GetActive(last.app) = PreActive(last.app)
        /\ ~Has("extract") => LinksUnchanged

\* Use of a version that is not installed, declined, while another is linked
C7_witness ==
    /\ last.op = "use" /\ last.not_installed /\ ~last.confirm
    /\ islink(bin[last.app])
    /\ Returned(0)

\* C8: the candidates are requested in list order up to the first one that
\* answers 2xx with at least one byte; that one supplies the archive that
\* is extracted, and nothing is extracted when there is none.
C8_download_order ==
    Len(last.responses) > 0 =>
        LET k == FirstDownloaded(last.responses)
            n == IF k = 0 THEN Len(last.responses) ELSE k
        IN  /\ last.requested = [i \in 1..n |-> i]
            /\ last.source = k
            /\ k = 0 => ~Has("extract") /\ last.archive = <<>>
            /\ Has("extract") =>
                   last.archive = download_path(home, last.app, timestamp, last.download_urls[k])

\* the first candidate answered 2xx without a byte and the second was extracted
C8_witness ==
    /\ Len(last.responses) = 2
    /\ last.responses[1].status_code = 200 /\ last.responses[1].body = 0
    /\ last.requested = <<1, 2>> /\ last.source = 2
    /\ Has("extract")

\* C9: when every candidate fails, Install returns a nonzero status, the
\* installation directory does not exist, nothing is extracted or built, and
\* the links are as before.
C9_all_failed ==
    (/\ Len(last.responses) > 0
     /\ \A i \in DOMAIN last.responses : ~Downloaded(last.responses[i]))
        => /\ last.returned = "int" /\ last.status # 0
           /\ ~Installed(programs, last.app, last.resolved)
           /\ ~Has("makedirs") /\ ~Has("extract") /\ ~Has("build")
           /\ LinksUnchanged

\* every candidate failed in a confirmed reinstallation of the linked version
C9_witness ==
    /\ Len(last.responses) = 2
    /\ \A i \in DOMAIN last.responses : ~Downloaded(last.responses[i])
    /\ last.asked /\ last.confirm_reinstall
    /\ islink(bin[last.app])
    /\ Returned(1)

\* C10: when the build returns a nonzero status, Install returns it,
\* activates nothing and leaves the extracted directory in place.
C10_build_failed ==
    last.build_status # 0 =>
        /\ Returned(last.build_status)
        /\ LinksUnchanged
        /\ GetActive(last.app) = PreActive(last.app)
        /\ Installed(programs, last.app, last.resolved)
        /\ Has("extract")
        /\ ~Has("symlink_bin") /\ ~Has("unlink_bin")

\* the build failed in an activating Install while another version was active
C10_witness ==
    /\ last.op = "install" /\ ~last.inactive
    /\ last.build_status # 0 /\ Returned(last.build_status)
    /\ \E v \in Versions : v # last.resolved /\ GetActive(last.app) = ActiveAt(v)

\* the layout of the installation of (app, version) in the home tree the
\* last command started in
PreLayout(app, version) ==
    get_app_installation_paths(last.pre.programs, home, system, is_64_bit, app, version,
                               get_install_path(home, app, version), None)

\* C11: when the layout of an installed (A, V) has neither a binary nor a
\* library directory, Use(A, V) reports an activation failure and returns
\* a failure status.
C11_claim ==
    (/\ last.op = "use"
     /\ Installed(last.pre.programs, last.app, last.version)
     /\ PreLayout(last.app, last.version) = <<None, None>>)
        => /\ ~last.use_ok
           /\ ~Returned(0)

\* C12: an installation directory comes into existence only by a successful
\* extraction: an Install of a version that was not installed and that ends
\* in an error before or at the extraction leaves it not installed.
C12_claim ==
    (/\ InstallRan
     /\ ~Installed(last.pre.programs, last.app, last.resolved)
     /\ ~Has("extract"))
        => ~Installed(programs, last.app, last.resolved)

\* C13: on a host whose operating system is none of Windows, Darwin and
\* Linux the download candidates are the empty sequence for every
\* application, nothing raises, and Install returns a nonzero status and
\* changes nothing.
C13_claim ==
    (InstallRan /\ system \notin SupportedSystems)
        => /\ last.download_urls = <<>>
           /\ last.returned = "int" /\ last.status # 0
           /\ programs = last.pre.programs
           /\ LinksUnchanged

\* C14: Uninstall removes the installation directory only when it exists
\* and the confirmation was given: without the directory it returns an
\* error status, with the confirmation declined it returns 0, and in both
\* cases no installation directory and no link is changed.
C14_uninstall_guards ==
    last.op = "uninstall" =>
        /\ ~Installed(last.pre.programs, last.app, last.version) =>
               /\ last.returned = "int" /\ last.status # 0
               /\ programs = last.pre.programs /\ LinksUnchanged
        /\ (Installed(last.pre.programs, last.app, last.version) /\ ~last.confirm) =>
               /\ Returned(0)
               /\ programs = last.pre.programs /\ LinksUnchanged
        /\ programs # last.pre.programs =>
               /\ Installed(last.pre.programs, last.app, last.version) /\ last.confirm
               /\ programs = rmtree(last.pre.programs, install_name(last.app, last.version))

\* the uninstallation of the active version was declined
C14_witness ==
    /\ last.op = "uninstall" /\ ~last.confirm
    /\ Installed(programs, last.app, last.version)
    /\ GetActive(last.app) = ActiveAt(last.version)
    /\ Returned(0)

\* C15: when Install finds the installation directory and the confirmation
\* is declined, the directory is as it was, nothing is requested, the links
\* are unchanged and 0 is returned; an Install changes an existing
\* installation directory only after the confirmation.
C15_declined_reinstall ==
    /\ (last.asked /\ ~last.confirm_reinstall) =>
           /\ programs = last.pre.programs
           /\ last.requested = <<>> /\ last.events = <<>>
           /\ LinksUnchanged
           /\ Returned(0)
    /\ (InstallRan /\ Installed(last.pre.programs, last.app, last.resolved)) =>
           /\ Len(last.download_urls) > 0 => last.asked
           /\ (programs # last.pre.programs \/ Has("rmtree") \/ Has("request")) =>
                  last.asked /\ last.confirm_reinstall

\* the reinstallation of the active version was declined
C15_witness ==
    /\ last.op = "install" /\ last.asked /\ ~last.confirm_reinstall
    /\ Installed(programs, last.app, last.resolved)
    /\ GetActive(last.app) = ActiveAt(last.resolved)
    /\ Returned(0)

\* C16: an Install with the inactive flag that succeeds creates the
\* installation and leaves the bin and lib links as they were, so that
\* GetActive is the same before and after.
C16_inactive ==
    (last.op = "install" /\ last.inactive /\ Has("extract") /\ Returned(0)) =>
        /\ Installed(programs, last.app, last.resolved)
        /\ LinksUnchanged
        /\ GetActive(last.app) = PreActive(last.app)
        /\ \A i \in DOMAIN last.events :
               last.events[i] \notin {"unlink_bin", "unlink_lib", "symlink_bin", "symlink_lib"}

\* an inactive Install succeeded while another version was active
C16_witness ==
    /\ last.op = "install" /\ last.inactive /\ Has("extract") /\ Returned(0)
    /\ ~Installed(last.pre.programs, last.app, last.resolved)
    /\ \E v \in Versions : v # last.resolved /\ GetActive(last.app) = ActiveAt(v)

\* C17: Install(A, "latest") with a non-empty remote version list acts on
\* the first entry of the list: the download candidates, the installation
\* directory and the activated version are those of the first entry.
C17_latest ==
    (InstallRan /\ last.version = s_latest /\ Len(last.versions) > 0) =>
        LET first == last.versions[1]
            n == install_name(last.app, first)
        IN  /\ last.resolved = first
            /\ last.download_urls =
                   get_app_download_urls(last.app, first, system, is_64_bit, is_arm, last.release)
            /\ \A i \in DOMAIN last.download_urls :
                   last.app # s_ldc => Contains(last.download_urls[i], first)
            /\ Has("extract") => Installed(programs, last.app, first)
            /\ \A m \in (DOMAIN programs \cup DOMAIN last.pre.programs) \ {n} :
                   /\ m \in DOMAIN programs /\ m \in DOMAIN last.pre.programs
                   /\ programs[m] = last.pre.programs[m]
            /\ last.use_ok =>
                   /\ LinkInto(bin[last.app], last.app, first)
                   /\ islink(lib[last.app]) => LinkInto(lib[last.app], last.app, first)

\* the latest version, not the highest of the list, replaced the active one
C17_witness ==
    /\ last.op = "install" /\ last.version = s_latest
    /\ last.versions = <<V1, V2>> /\ last.resolved = V1
    /\ last.use_ok /\ Returned(0)
    /\ islink(last.pre.bin[last.app])
    /\ ~LinkInto(last.pre.bin[last.app], last.app, V1)
    /\ LinkInto(bin[last.app], last.app, V1)

\* the directory of the host's operating system below the dmd2 release root
\* of the installation the last command was about
OsRoot ==
    PathJoin3(get_install_path(home, s_dmd, last.version), s_dmd2,
              CASE system = "Windows" -> s_windows
                [] system = "Darwin" -> s_osx
                [] system = "Linux" -> s_linux
                [] OTHER -> <<>>)

\* the directory d is there below OsRoot
HasDir(d) == exists(last.pre.programs, home, PathJoin(OsRoot, d))

\* Use of dmd on a supported operating system made the links
DmdLinked ==
    /\ last.op = "use" /\ last.app = s_dmd /\ last.use_ok
    /\ system \in SupportedSystems

C19_pagination ==
    listing.kind = "github" =>
        LET n == listing.upstream
            k == Len(listing.requested)
        IN  /\ listing.requested = [i \in 1..k |-> i]
            /\ listing.page_number = k + 1
            /\ k <= (n \div 100) + 1
            /\ listing.results = [i \in 1..Len(listing.results) |-> i]
            /\ ~listing.done => Len(listing.results) = 100 * k
            /\ listing.done => /\ k = (n \div 100) + 1
                               /\ Len(listing.results) = n

\* pages of 100, 100 and 37 entries gave 237 versions in three requests
C19_witness ==
    /\ listing.kind = "github" /\ listing.done
    /\ listing.upstream = 237
    /\ listing.requested = <<1, 2, 3>>
    /\ Len(listing.results) = 237

\* the versions of source i of the dmd list, as far as it answered with success
Answered(i) ==
    IF i <= Len(listing.responses) /\ listing.responses[i].status_code \in 200..299
    THEN listing.responses[i].versions
    ELSE <<>>

\* C20: the dmd version list queries the sources 2.x, 1.x, 0.x in this
\* order; a source that answers without success is skipped and the others
\* are still queried; the result is the versions of the sources that
\* succeeded, in order, and the empty list when all three fail.
C20_dmd_list ==
    listing.kind = "dmd" =>
        LET k == Len(listing.requested)
        IN  /\ listing.requested = SubSeq(list_urls, 1, k)
            /\ list_urls = <<s_dmd_url \o <<"2", ".", "x", sep>>,
                             s_dmd_url \o <<"1", ".", "x", sep>>,
                             s_dmd_url \o <<"0", ".", "x", sep>>>>
            /\ Len(listing.responses) = k
            /\ listing.done <=> k = 3
            /\ listing.versions = Answered(1) \o Answered(2) \o Answered(3)
            /\ (\A i \in 1..k : listing.responses[i].status_code \notin 200..299) =>
                   listing.versions = <<>>

\* the first source failed and the versions of the other two were returned
C20_witness ==
    /\ listing.kind = "dmd" /\ listing.done
    /\ listing.responses[1].status_code = 404
    /\ listing.responses[1].versions # <<>>
    /\ listing.versions = BranchVersions[2] \o BranchVersions[3]

\* event a comes before event b wherever both happened in the last command
Before(a, b) ==
    \A i, j \in DOMAIN last.events :
        (last.events[i] = a /\ last.events[j] = b) => i < j

\* how often event e happened in the last command
Count(e) == Cardinality({i \in DOMAIN last.events : last.events[i] = e})

\* C21: a successful activating Install of dub at the tag V requests exactly
\* one candidate, derived from the tag, extracts it into programs/dub-V,
\* builds, and activates only after the build succeeded; afterwards bin/dub
\* links to the bin directory of the extracted subdirectory and there is no
\* lib/dub link.
C21_dub ==
    (InstallRan /\ last.app = s_dub /\ ~last.inactive /\ Has("extract") /\ Returned(0)) =>
        /\ last.download_urls =
               <<<<"h","t","t","p","s",":","/","/","g","i","t","h","u","b",".","c","o","m",
                   "/","d","l","a","n","g","/","d","u","b","/","a","r","c","h","i","v","e",
                   "/","r","e","f","s","/","t","a","g","s","/">>
                 \o last.resolved \o <<".","z","i","p">>>>
        /\ last.requested = <<1>> /\ Count("request") = 1
        /\ Count("extract") = 1 /\ Count("build") = 1 /\ Count("symlink_bin") = 1
        /\ Before("request", "extract") /\ Before("extract", "build")
        /\ Before("build", "unlink_bin") /\ Before("build", "unlink_lib")
        /\ Before("build", "symlink_bin")
        /\ last.build_status = 0
        /\ Installed(programs, s_dub, last.resolved)
        /\ \E first \in TopDirs(programs[install_name(s_dub, last.resolved)]) :
               /\ TopDirs(programs[install_name(s_dub, last.resolved)]) = {first}
               /\ bin[s_dub] = Symlink(get_install_path(home, s_dub, last.resolved)
                                       \o <<sep>> \o first \o <<sep, "b", "i", "n">>)
        /\ ~Has("symlink_lib")
        /\ ~lexists(lib[s_dub])

\* dub was installed, built and activated in place of another active version
C21_witness ==
    /\ last.op = "install" /\ last.app = s_dub /\ ~last.inactive
    /\ Has("build") /\ Has("unlink_bin") /\ Has("symlink_bin") /\ Returned(0)
    /\ \E v \in Versions : v # last.resolved /\ LinkInto(last.pre.bin[s_dub], s_dub, v)
    /\ LinkInto(bin[s_dub], s_dub, last.resolved)

\* C22: in every reachable state, if GetActive(A) returns V then the
\* installation directory of (A, V) exists.
C22_claim ==
    \A app \in Apps :
        LET active == GetActive(app)
        IN  (~active.raised /\ active.value # None) =>
                Installed(programs, app, active.value)

\* C23: when the remote version list is empty, Install(A, "latest") returns
\* a failure status without computing download candidates, without
\* requesting a download and without creating an installation directory.
C23_claim ==
    (InstallRan /\ last.version = s_latest /\ last.versions = <<>>) =>
        /\ last.returned = "int" /\ last.status # 0
        /\ last.download_urls = <<>>
        /\ last.requested = <<>>
        /\ DOMAIN programs = DOMAIN last.pre.programs

\* C24: for a dmd installation that holds dmd/bin directly below its root,
\* the layout is dmd/bin and, where present, dmd/lib, so that Use(dmd, V)
\* succeeds and bin/dmd links to that dmd/bin directory.
C24_claim ==
    LET install_path == get_install_path(home, s_dmd, last.version)
    IN  (/\ last.op = "use" /\ last.app = s_dmd
         /\ exists(last.pre.programs, home, install_path \o <<sep, "d", "m", "d", sep, "b", "i", "n">>))
            => /\ last.use_ok /\ Returned(0)
               /\ bin[s_dmd] = Symlink(install_path \o <<sep, "d", "m", "d", sep, "b", "i", "n">>)
               /\ exists(last.pre.programs, home,
                         install_path \o <<sep, "d", "m", "d", sep, "l", "i", "b">>)
                      => lib[s_dmd] = Symlink(install_path \o <<sep, "d", "m", "d", sep, "l", "i", "b">>)

\* C25: on a Windows host the ldc candidate is the 64-bit asset (a name with
\* windows-x64 or win64) exactly when the host is 64-bit and such an asset is
\* in the release, otherwise the 32-bit asset (windows-x86 or win32) when
\* there is one, otherwise there is no candidate; the order of the assets
\* plays no part.
C25_claim ==
    LET assets == last.release.assets
        Is64(a) == Contains(a.name, windows_x64) \/ Contains(a.name, win64)
        Is32(a) == Contains(a.name, windows_x86) \/ Contains(a.name, win32)
        urls(P(_)) == {<<assets[i].browser_download_url>> : i \in {j \in DOMAIN assets : P(assets[j])}}
    IN  (/\ InstallRan /\ last.app = s_ldc /\ system = "Windows"
         /\ HttpOk(last.release.status_code))
            => IF is_64_bit /\ urls(Is64) # {} THEN last.download_urls \in urls(Is64)
               ELSE IF urls(Is32) # {} THEN last.download_urls \in urls(Is32)
               ELSE last.download_urls = <<>>

\* C26: a confirmed Uninstall(A, V) of an installed version that is not the
\* active one removes the installation directory of (A, V) and nothing else:
\* bin/A, lib/A and GetActive(A) are as before, and every other installation
\* directory is as it was.
C26_uninstall_inactive ==
    LET n == install_name(last.app, last.version)
    IN  (/\ last.op = "uninstall" /\ last.confirm
         /\ Installed(last.pre.programs, last.app, last.version)
         /\ ~PreActive(last.app).raised
         /\ PreActive(last.app).value # last.version)
            => /\ n \notin DOMAIN programs
               /\ DOMAIN programs = DOMAIN last.pre.programs \ {n}
               /\ \A m \in DOMAIN programs : programs[m] = last.pre.programs[m]
               /\ bin[last.app] = last.pre.bin[last.app]
               /\ lib[last.app] = last.pre.lib[last.app]
               /\ GetActive(last.app) = PreActive(last.app)
               /\ last.events = <<"rmtree">>

\* a version was uninstalled while another version stayed the active one
C26_witness ==
    /\ last.op = "uninstall" /\ last.confirm
    /\ Installed(last.pre.programs, last.app, last.version)
    /\ ~Installed(programs, last.app, last.version)
    /\ \E version \in Versions \ {last.version} :
           /\ PreActive(last.app) = ActiveAt(version)
           /\ GetActive(last.app) = ActiveAt(version)
           /\ Installed(programs, last.app, version)
    /\ islink(lib[last.app])

\* C27: a command on application A leaves bin/B, lib/B and every
\* installation directory programs/B-* of every other application B as they
\* were.
C27_isolation ==
    last.op # "none" =>
        \A B \in Apps \ {last.app} :
            /\ bin[B] = last.pre.bin[B]
            /\ lib[B] = last.pre.lib[B]
            /\ iter_installed_versions(programs, B) = iter_installed_versions(last.pre.programs, B)
            /\ \A m \in DOMAIN last.pre.programs :
                   StartsWith(m, B \o <<"-">>) =>
                       m \in DOMAIN programs /\ programs[m] = last.pre.programs[m]

\* a command changed the links or the installations of its application while
\* another application was linked and had the same version installed
C27_witness ==
    /\ last.op \in {"install", "use", "disuse", "uninstall"}
    /\ \/ bin[last.app] # last.pre.bin[last.app]
       \/ DOMAIN programs # DOMAIN last.pre.programs
    /\ Has("rmtree")
    /\ \E B \in Apps \ {last.app} :
           /\ islink(bin[B])
           /\ Installed(programs, B, last.version)

====
